---------------------------- MODULE Spec2Model ----------------------------
(***************************************************************************)
(* HomeBudget: the budget-progress evaluation of the Budget page           *)
(* (client/src/pages/Budget.tsx) and the dashboard analytics of the        *)
(* storage layer (server/routes.ts, class DatabaseStorage), with the       *)
(* routes that write transactions, categories, budgets and goals; the      *)
(* accounts and sessions behind requireAuth, registration and account      *)
(* deletion; the requests of the Goals and Budget pages; and the Finish    *)
(* step of the onboarding wizard (client/src/pages/OnboardingWizard.tsx).  *)
(*                                                                         *)
(* Money is counted in whole minor units (the decimal(10,2) columns), an   *)
(* alertThreshold in hundredths (the decimal(3,2) column), and ratios are  *)
(* exact fractions, so JavaScript's floating point rounding is not         *)
(* modelled.  An instant is a calendar date (JavaScript's 0-based month)   *)
(* with a tick of the day; tick 0 is 00:00.                                *)
(***************************************************************************)
EXTENDS Integers, Sequences, FiniteSets, TLC

\* ---------------------------------------------------------------- bounds
\* Rows of the expenses table the bounded specifications start from.
MaxExpenses == 2
\* Instants distinguished within one day (tick 0 is midnight).
TicksPerDay == 2
\* Rows of the budgets table.
MaxBudgets == 1
\* Rows of the goals table.
MaxGoals == 1
\* Expenses tables one getDashboardStats call may overlap (writes during a
\* call are refused beyond it).
MaxSnapshots == 2

\* ------------------------------------------------------- sample inputs
Users == {"u1", "u2"}
NULL == "null"
CategoryIds == {"c1", "c2"}
Types == {"expense", "income"}
Amounts == {40, 180}
Periods == {"weekly", "monthly", "yearly"}
BudgetAmounts == {0, 200, 220}
AlertThresholds == {0, 80, 90}

\* ------------------------------------------------------------ JS Date
IsLeapYear(y) == (y % 4 = 0) /\ ((y % 100 # 0) \/ (y % 400 = 0))

DaysInMonth(y, m) ==
  IF m = 1 THEN (IF IsLeapYear(y) THEN 29 ELSE 28)
  ELSE IF m \in {3, 5, 8, 10} THEN 30
  ELSE 31

\* The Date constructor and the setters take fields outside their range and
\* carry them over: month 12 is January of the next year, day 0 is the last
\* day of the previous month, day 31 of a 30-day month is the 1st of the next.
RECURSIVE MakeDate(_, _, _, _)
MakeDate(y, m, d, t) ==
  IF m > 11 THEN MakeDate(y + 1, m - 12, d, t)
  ELSE IF m < 0 THEN MakeDate(y - 1, m + 12, d, t)
  ELSE IF d > DaysInMonth(y, m) THEN MakeDate(y, m + 1, d - DaysInMonth(y, m), t)
  ELSE IF d < 1 THEN
    LET py == IF m = 0 THEN y - 1 ELSE y
        pm == IF m = 0 THEN 11 ELSE m - 1
    IN  MakeDate(py, pm, d + DaysInMonth(py, pm), t)
  ELSE [y |-> y, m |-> m, d |-> d, t |-> t]

\* The time value dates are compared by (>=, <=, gte, lte, between).
DateValue(dt) == ((dt.y * 12 + dt.m) * 32 + dt.d) * TicksPerDay + dt.t

\* ---------------------------------------------------------- JS numbers
RECURSIVE GCD(_, _)
GCD(a, b) == IF b = 0 THEN a ELSE GCD(b, a % b)

Abs(n) == IF n < 0 THEN 0 - n ELSE n

\* A finite number n/d in lowest terms (d > 0).
Fraction(n, d) ==
  LET g == GCD(Abs(n), d)
  IN  [kind |-> "finite", num |-> n \div g, den |-> d \div g]

Num(n) == Fraction(n, 1)

\* a / b of two numbers holding integers: a zero divisor gives NaN or an
\* infinity, never an exception.
JsDiv(a, b) ==
  IF b = 0
  THEN [kind |-> (IF a = 0 THEN "NaN" ELSE IF a > 0 THEN "Infinity" ELSE "-Infinity"),
        num |-> 0, den |-> 1]
  ELSE IF b > 0 THEN Fraction(a, b) ELSE Fraction(0 - a, 0 - b)

\* x * k for an integer k > 0.
JsTimes(x, k) == IF x.kind = "finite" THEN Fraction(x.num * k, x.den) ELSE x

\* x >= k for an integer k: false whenever x is NaN.
JsGE(x, k) ==
  \/ x.kind = "Infinity"
  \/ x.kind = "finite" /\ x.num >= k * x.den

\* --------------------------------------------------------------- state
VARIABLES
  now,            \* the clock new Date() reads
  expenses,       \* table expenses: rows [id, userId, amount, type, categoryId, date]
  categories,     \* table categories: rows [id, userId, name, color]
  budgets,        \* table budgets
  expensesQuery,  \* Budget page: the useQuery of /api/expenses and its user
  progress,       \* Budget page: what calculateBudgetProgress last returned
  statsCall,      \* the getDashboardStats call in flight, between its queries
  stats,          \* what getDashboardStats last returned
  breakdown,      \* what getCategoryBreakdown last returned
  goals,          \* table goals: rows [id, userId, name, targetAmount,
                  \* currentAmount, isCompleted, categoryId]
  categoryReply,  \* what DELETE /api/categories/:id last answered
  trends,         \* what GET /api/dashboard/spending-trends last answered
  snapshots,      \* history: the expenses tables that existed during the
                  \* getDashboardStats call in flight, or during the last one
  users,          \* table users: rows [id, email, onboardingCompleted]
  sessions,       \* table sessions: rows [id, userId, expiresAt]
  issued,         \* history: the session ids generateSessionId has returned
  registerCalls,  \* the POST /api/auth/register requests in flight
  authCall,       \* the request in flight on a route behind requireAuth
  authReply,      \* what such a route last answered
  goalsQuery,     \* Goals page: the useQuery of /api/goals
  requests,       \* the budget and goal mutations the pages have sent
  routeReply,     \* what the server last answered to one of them
  progressLog,    \* history: the add-progress amounts updateGoal has stored
  wizard          \* OnboardingWizard: its selections and its Finish attempt

tables == <<expenses, categories, budgets>>
client == <<expensesQuery, progress>>
analytics == <<statsCall, stats, breakdown>>
ledger == <<goals, categoryReply, trends>>
accounts == <<users, sessions, issued, registerCalls, authCall, authReply>>
pages == <<goalsQuery, requests, routeReply, progressLog, wizard>>
vars == <<now, tables, client, analytics, ledger, snapshots, accounts, pages>>

\* ------------------------------------------------------------- storage
\* Foreign keys to users.id: a row is inserted for a stored user only.
UserExists(id) == \E u \in users : u.id = id

\* gen_random_uuid(): an id no row of the table has (the least one here).
FreshId(table) == CHOOSE i \in 1..(Cardinality(table) + 1) : \A r \in table : r.id # i

\* DatabaseStorage.createExpense: insert ... returning.
createExpense(expenseData) ==
  expenses' = expenses \cup {[id |-> FreshId(expenses)] @@ expenseData}

\* DatabaseStorage.createBudget: insert ... returning.
createBudget(budgetData) ==
  budgets' = budgets \cup {[id |-> FreshId(budgets)] @@ budgetData}

\* DatabaseStorage.getExpenses(userId, {}): no filter of the query string is
\* set, so the only condition is the user.
getExpenses(userId) == {e \in expenses : e.userId = userId}

\* DatabaseStorage.updateExpense: update ... set(updates) where id = id; the
\* row after the update.
updateExpense(id, updates) ==
  LET row == CHOOSE e \in expenses : e.id = id
  IN  [f \in DOMAIN row |-> IF f \in DOMAIN updates THEN updates[f] ELSE row[f]]

\* DatabaseStorage.deleteExpense: delete where id = id and user_id = userId.
deleteExpense(id, userId) == {e \in expenses : ~(e.id = id /\ e.userId = userId)}

\* DatabaseStorage.deleteCategory: delete where id = id.
deleteCategory(id) == {c \in categories : c.id # id}

\* A row of expenses, budgets or goals holds the category's id.
IsReferenced(id) ==
  \/ \E e \in expenses : e.categoryId = id
  \/ \E b \in budgets : b.categoryId = id
  \/ \E g \in goals : g.categoryId = id

\* DatabaseStorage.createGoal: insert ... returning.
createGoal(goalData) ==
  goals' = goals \cup {[id |-> FreshId(goals)] @@ goalData}

RECURSIVE SumAmounts(_)
SumAmounts(rows) ==
  IF rows = {} THEN 0
  ELSE LET r == CHOOSE x \in rows : TRUE
       IN  r.amount + SumAmounts(rows \ {r})

\* --------------------------------------------- Budget page (the client)
\* The end of the budget's window: a copy of startDate moved by setDate,
\* setFullYear or setMonth.
endDate(budget) ==
  LET startDate == budget.startDate
  IN  CASE budget.period = "weekly" ->
             MakeDate(startDate.y, startDate.m, startDate.d + 7, startDate.t)
        [] budget.period = "yearly" ->
             MakeDate(startDate.y + 1, startDate.m, startDate.d, startDate.t)
        [] OTHER ->
             MakeDate(startDate.y, startDate.m + 1, startDate.d, startDate.t)

\* expenses.filter(...): the rows of the loaded list the budget counts.
categoryExpenses(budget, data) ==
  {expense \in data :
     /\ expense.type = "expense"
     /\ DateValue(expense.date) >= DateValue(budget.startDate)
     /\ DateValue(expense.date) <= DateValue(endDate(budget))
     /\ (IF budget.categoryId # NULL
         THEN expense.categoryId = budget.categoryId
         ELSE TRUE)}

\* The percentage without its guard on the budget's amount.
budgetPercentageUnguarded(spent, budgetAmount) ==
  JsTimes(JsDiv(spent, budgetAmount), 100)

\* percentage = budgetAmount > 0 ? (spent / budgetAmount) * 100 : 0
budgetPercentage(spent, budgetAmount) ==
  IF budgetAmount > 0 THEN JsTimes(JsDiv(spent, budgetAmount), 100) ELSE Num(0)

\* The status with the two tests in the other order.
budgetStatusThresholdFirst(percentage, alertThreshold) ==
  IF JsGE(percentage, alertThreshold) THEN "warning"
  ELSE IF JsGE(percentage, 100) THEN "over-budget"
  ELSE "on-track"

\* The status of a percentage against alertThreshold * 100.
budgetStatus(percentage, alertThreshold) ==
  IF JsGE(percentage, 100) THEN "over-budget"
  ELSE IF JsGE(percentage, alertThreshold) THEN "warning"
  ELSE "on-track"

\* calculateBudgetProgress(budget), with the query data and the clock it
\* reads; the result is kept with the inputs it was computed from and with
\* the rows it counted.
calculateBudgetProgress(budget, query, clock) ==
  IF ~query.loaded
  THEN [budget |-> budget, loaded |-> FALSE, expenses |-> {}, now |-> clock,
        categoryExpenses |-> {},
        spent |-> 0, percentage |-> Num(0), remaining |-> 0, status |-> "on-track"]
  ELSE LET counted == categoryExpenses(budget, query.data)
           spent == SumAmounts(counted)
           budgetAmount == budget.amount
           percentage == budgetPercentage(spent, budgetAmount)
       IN  [budget |-> budget, loaded |-> TRUE, expenses |-> query.data, now |-> clock,
            categoryExpenses |-> counted,
            spent |-> spent, percentage |-> percentage,
            remaining |-> budgetAmount - spent,
            status |-> budgetStatus(percentage, budget.alertThreshold)]

\* ------------------------------------- dashboard analytics (storage)
\* COALESCE(SUM(amount), 0) of the user's rows of one type dated
\* gte(firstDayThisMonth).
thisMonthTotal(userId, type, firstDayThisMonth) ==
  SumAmounts({e \in expenses :
                /\ e.userId = userId
                /\ e.type = type
                /\ DateValue(e.date) >= DateValue(firstDayThisMonth)})

\* COALESCE(SUM(amount), 0) of the user's rows of one type dated
\* between(firstDayLastMonth, lastDayLastMonth), both ends included.
lastMonthTotal(userId, type, firstDayLastMonth, lastDayLastMonth) ==
  SumAmounts({e \in expenses :
                /\ e.userId = userId
                /\ e.type = type
                /\ DateValue(e.date) >= DateValue(firstDayLastMonth)
                /\ DateValue(e.date) <= DateValue(lastDayLastMonth)})

\* (a - b) / b * 100 when b > 0, else 0: expenseChange and incomeChange.
changeOver(thisMonth, lastMonth) ==
  IF lastMonth > 0 THEN JsTimes(JsDiv(thisMonth - lastMonth, lastMonth), 100) ELSE Num(0)

\* savingsRate.
savingsRateOf(thisMonthInc, thisMonthExp) ==
  IF thisMonthInc > 0 THEN JsTimes(JsDiv(thisMonthInc - thisMonthExp, thisMonthInc), 100)
  ELSE Num(0)

\* What getDashboardStats returns from its four sums; the two sums of last
\* month, which the response drops, are kept beside it with the call's user
\* and clock.
dashboardStats(userId, clock, thisMonthExp, thisMonthInc, lastMonthExp, lastMonthInc) ==
  [userId |-> userId, now |-> clock,
   lastMonthExpenses |-> lastMonthExp, lastMonthIncome |-> lastMonthInc,
   totalBalance |-> thisMonthInc - thisMonthExp,
   thisMonthExpenses |-> thisMonthExp,
   thisMonthIncome |-> thisMonthInc,
   expenseChange |-> changeOver(thisMonthExp, lastMonthExp),
   incomeChange |-> changeOver(thisMonthInc, lastMonthInc),
   savingsRate |-> savingsRateOf(thisMonthInc, thisMonthExp)]

NoDate == MakeDate(1970, 0, 1, 0)
IdleStatsCall ==
  [pc |-> "idle", userId |-> NULL, now |-> NoDate, firstDayThisMonth |-> NoDate,
   firstDayLastMonth |-> NoDate, lastDayLastMonth |-> NoDate,
   thisMonthExpenses |-> 0, thisMonthIncome |-> 0, lastMonthExpenses |-> 0]

\* No DELETE /api/categories/:id was answered yet.
NoReply == [id |-> NULL, status |-> 0, referenced |-> FALSE]

\* The period tokens getCategoryBreakdown has a case for.
PeriodTokens == {"thisMonth", "lastMonth", "thisYear"}

\* The switch over the period token: the start of the window.
breakdownStartDate(period, clock) ==
  CASE period = "thisMonth" -> MakeDate(clock.y, clock.m, 1, 0)
    [] period = "lastMonth" -> MakeDate(clock.y, clock.m - 1, 1, 0)
    [] period = "thisYear" -> MakeDate(clock.y, 0, 1, 0)
    [] OTHER -> MakeDate(clock.y, clock.m, 1, 0)

\* The rows the breakdown query aggregates.
breakdownExpenses(userId, startDate) ==
  {e \in expenses :
     /\ e.userId = userId
     /\ e.type = "expense"
     /\ DateValue(e.date) >= DateValue(startDate)}

\* leftJoin(categories): the joined column, NULL without a matching category.
joinedCategory(categoryId, column) ==
  IF \E c \in categories : c.id = categoryId
  THEN (CHOOSE c \in categories : c.id = categoryId)[column]
  ELSE NULL

\* The grouped query joined with an inner join: the groups without a
\* matching category are lost.
categoryBreakdownRowsInnerJoin(userId, startDate) ==
  LET matching == {e \in breakdownExpenses(userId, startDate) :
                     \E c \in categories : c.id = e.categoryId}
      group(cid) == {e \in matching : e.categoryId = cid}
      totalExpenses == SumAmounts(matching)
  IN  {[categoryId |-> cid,
        category |-> joinedCategory(cid, "name"),
        amount |-> SumAmounts(group(cid)),
        percentage |-> (IF totalExpenses > 0
                        THEN JsTimes(JsDiv(SumAmounts(group(cid)), totalExpenses), 100)
                        ELSE Num(0)),
        color |-> joinedCategory(cid, "color"),
        transactionCount |-> Cardinality(group(cid))]
       : cid \in {e.categoryId : e \in matching}}

\* The grouped query and the map over its items.  categories.id is the
\* primary key, so the groups are the distinct categoryId values (NULL is
\* one group); a row keeps its group's categoryId, which tells equal rows of
\* the response apart.
categoryBreakdownRows(userId, startDate) ==
  LET matching == breakdownExpenses(userId, startDate)
      group(cid) == {e \in matching : e.categoryId = cid}
      totalExpenses == SumAmounts(matching)
  IN  {[categoryId |-> cid,
        category |-> (IF joinedCategory(cid, "name") # NULL
                      THEN joinedCategory(cid, "name") ELSE "Uncategorized"),
        amount |-> SumAmounts(group(cid)),
        percentage |-> (IF totalExpenses > 0
                        THEN JsTimes(JsDiv(SumAmounts(group(cid)), totalExpenses), 100)
                        ELSE Num(0)),
        color |-> (IF joinedCategory(cid, "color") # NULL
                   THEN joinedCategory(cid, "color") ELSE "#6B7280"),
        transactionCount |-> Cardinality(group(cid))]
       : cid \in {e.categoryId : e \in matching}}

\* getCategoryBreakdown(userId, period): the response, kept with the call's
\* arguments, clock and window start.
getCategoryBreakdown(userId, period, clock) ==
  [userId |-> userId, period |-> period, now |-> clock,
   startDate |-> breakdownStartDate(period, clock),
   rows |-> categoryBreakdownRows(userId, breakdownStartDate(period, clock))]

\* The months the trends route asks for when the query string gives none.
DefaultMonths == 6

\* NOW() - INTERVAL 'n months': the same instant of the month n months back,
\* the day clamped to that month's length.
trendsStartDate(clock, months) ==
  LET index == clock.y * 12 + clock.m - months
      y == index \div 12
      m == index % 12
  IN  [y |-> y, m |-> m,
       d |-> (IF clock.d > DaysInMonth(y, m) THEN DaysInMonth(y, m) ELSE clock.d),
       t |-> clock.t]

\* TO_CHAR(date, 'YYYY-MM'): the year and the 1-based month; the text order
\* of two labels is the order of their years, then of their months.
toCharYYYYMM(date) == <<date.y, date.m + 1>>
labelLE(a, b) == a[1] < b[1] \/ (a[1] = b[1] /\ a[2] <= b[2])

\* orderBy(TO_CHAR(...)): the groups as a list, ascending by label.
RECURSIVE orderByMonth(_)
orderByMonth(groups) ==
  IF groups = {} THEN <<>>
  ELSE LET first == CHOOSE g \in groups : \A h \in groups : labelLE(g.month, h.month)
       IN  <<first>> \o orderByMonth(groups \ {first})

\* getSpendingTrends(userId, months): one entry per label that a row of the
\* user dated gte(NOW() - INTERVAL) carries.
getSpendingTrends(userId, months, clock) ==
  LET matching == {e \in expenses :
                     /\ e.userId = userId
                     /\ DateValue(e.date) >= DateValue(trendsStartDate(clock, months))}
      group(label) == {e \in matching : toCharYYYYMM(e.date) = label}
      totalExpenses(label) == SumAmounts({e \in group(label) : e.type = "expense"})
      totalIncome(label) == SumAmounts({e \in group(label) : e.type = "income"})
  IN  orderByMonth({[month |-> label,
                     totalExpenses |-> totalExpenses(label),
                     totalIncome |-> totalIncome(label),
                     netSavings |-> totalIncome(label) - totalExpenses(label)]
                    : label \in {toCharYYYYMM(e.date) : e \in matching}})

\* The months value reaches the statement inside the quoted interval
\* literal: the driver either binds it there or the statement fails.
IntervalOutcomes == {"bound", "failed"}

\* ------------------------------------------------------------- actions
\* category_id references categories.id: an insert naming a category the
\* table does not hold is refused by the database.
ReferencesCategory(categoryId) ==
  categoryId = NULL \/ \E c \in categories : c.id = categoryId

\* History: a write that lands while a getDashboardStats call is in flight
\* leaves one more table the call overlapped.
CanWrite == statsCall.pc = "idle" \/ Cardinality(snapshots) < MaxSnapshots
Observe(table) ==
  snapshots' = IF statsCall.pc # "idle" THEN snapshots \cup {table} ELSE snapshots

\* POST /api/categories served by createCategory.
CreateCategory(category) ==
  /\ \A c \in categories : c.id # category.id
  /\ category.userId = NULL \/ UserExists(category.userId)
  /\ categories' = categories \cup {category}
  /\ UNCHANGED <<accounts, pages, ledger, snapshots, now, expenses, budgets, client, analytics>>

\* POST /api/expenses served by createExpense.
CreateExpense(u, amount, type, categoryId, date) ==
  /\ Cardinality(expenses) < MaxExpenses
  /\ UserExists(u)
  /\ ReferencesCategory(categoryId)
  /\ CanWrite
  /\ createExpense([userId |-> u, amount |-> amount, type |-> type,
                    categoryId |-> categoryId, date |-> date])
  /\ Observe(expenses')
  /\ UNCHANGED <<accounts, pages, ledger, now, categories, budgets, client, analytics>>

\* POST /api/budgets served by createBudget.
CreateBudget(u, categoryId, amount, period, startDate, alertThreshold) ==
  /\ Cardinality(budgets) < MaxBudgets
  /\ UserExists(u)
  /\ ReferencesCategory(categoryId)
  /\ createBudget([userId |-> u, categoryId |-> categoryId, amount |-> amount,
                   period |-> period, startDate |-> startDate,
                   alertThreshold |-> alertThreshold])
  /\ UNCHANGED <<accounts, pages, ledger, snapshots, now, expenses, categories, client, analytics>>

\* The Budget page's query of /api/expenses resolves for its user.
FetchExpenses ==
  /\ expensesQuery' = [expensesQuery EXCEPT !.loaded = TRUE,
                                            !.data = getExpenses(expensesQuery.userId)]
  /\ UNCHANGED <<accounts, pages, ledger, snapshots, now, tables, progress, analytics>>

\* The Budget page renders one of its user's budgets.
CalculateBudgetProgress(budget) ==
  /\ budget.userId = expensesQuery.userId
  /\ progress' = {calculateBudgetProgress(budget, expensesQuery, now)}
  /\ UNCHANGED <<accounts, pages, ledger, snapshots, now, tables, expensesQuery, analytics>>

\* GET /api/dashboard/stats: getDashboardStats reads the clock and derives
\* the month boundaries ...
GetDashboardStats(u) ==
  /\ statsCall.pc = "idle"
  /\ statsCall' = [IdleStatsCall EXCEPT
                     !.pc = "thisMonthExpenses", !.userId = u, !.now = now,
                     !.firstDayThisMonth = MakeDate(now.y, now.m, 1, 0),
                     !.firstDayLastMonth = MakeDate(now.y, now.m - 1, 1, 0),
                     !.lastDayLastMonth = MakeDate(now.y, now.m, 0, 0)]
  /\ snapshots' = {expenses}
  /\ UNCHANGED <<accounts, pages, ledger, now, tables, client, stats, breakdown>>

\* ... then awaits four queries, one after the other ...
QueryThisMonthExpenses ==
  /\ statsCall.pc = "thisMonthExpenses"
  /\ statsCall' = [statsCall EXCEPT
                     !.pc = "thisMonthIncome",
                     !.thisMonthExpenses =
                        thisMonthTotal(statsCall.userId, "expense", statsCall.firstDayThisMonth)]
  /\ UNCHANGED <<accounts, pages, ledger, snapshots, now, tables, client, stats, breakdown>>

QueryThisMonthIncome ==
  /\ statsCall.pc = "thisMonthIncome"
  /\ statsCall' = [statsCall EXCEPT
                     !.pc = "lastMonthExpenses",
                     !.thisMonthIncome =
                        thisMonthTotal(statsCall.userId, "income", statsCall.firstDayThisMonth)]
  /\ UNCHANGED <<accounts, pages, ledger, snapshots, now, tables, client, stats, breakdown>>

QueryLastMonthExpenses ==
  /\ statsCall.pc = "lastMonthExpenses"
  /\ statsCall' = [statsCall EXCEPT
                     !.pc = "lastMonthIncome",
                     !.lastMonthExpenses =
                        lastMonthTotal(statsCall.userId, "expense",
                                       statsCall.firstDayLastMonth, statsCall.lastDayLastMonth)]
  /\ UNCHANGED <<accounts, pages, ledger, snapshots, now, tables, client, stats, breakdown>>

\* ... and composes the response from the four sums after the last one.
QueryLastMonthIncome ==
  /\ statsCall.pc = "lastMonthIncome"
  /\ stats' = {dashboardStats(statsCall.userId, statsCall.now,
                              statsCall.thisMonthExpenses, statsCall.thisMonthIncome,
                              statsCall.lastMonthExpenses,
                              lastMonthTotal(statsCall.userId, "income",
                                             statsCall.firstDayLastMonth,
                                             statsCall.lastDayLastMonth))}
  /\ statsCall' = IdleStatsCall
  /\ UNCHANGED <<accounts, pages, ledger, snapshots, now, tables, client, breakdown>>

\* GET /api/dashboard/category-breakdown: the route takes "thisMonth" when
\* the query string names no period (queryPeriod = NULL).
GetCategoryBreakdown(u, queryPeriod) ==
  /\ LET period == IF queryPeriod # NULL THEN queryPeriod ELSE "thisMonth"
     IN  breakdown' = {getCategoryBreakdown(u, period, now)}
  /\ UNCHANGED <<accounts, pages, ledger, snapshots, now, tables, client, statsCall, stats>>

\* PATCH /api/expenses/:id served by updateExpense: the body goes to
\* set(...) as it came, unvalidated, and the row is found by its id alone.
UpdateExpense(id, updates) ==
  /\ CanWrite
  /\ \E e \in expenses : e.id = id
  /\ ReferencesCategory(updateExpense(id, updates).categoryId)
  /\ expenses' = (expenses \ {e \in expenses : e.id = id}) \cup {updateExpense(id, updates)}
  /\ Observe(expenses')
  /\ UNCHANGED <<accounts, pages, ledger, now, categories, budgets, client, analytics>>

\* DELETE /api/expenses/:id served by deleteExpense.
DeleteExpense(id, u) ==
  /\ CanWrite
  /\ \E e \in expenses : e.id = id /\ e.userId = u
  /\ expenses' = deleteExpense(id, u)
  /\ Observe(expenses')
  /\ UNCHANGED <<accounts, pages, ledger, now, categories, budgets, client, analytics>>

\* DELETE /api/categories/:id served by deleteCategory: the statement fails
\* while a row of expenses, budgets or goals references the category (their
\* category_id columns reference categories.id with no ON DELETE action),
\* and the route answers 500; otherwise it answers { success: true }.
DeleteCategory(id) ==
  /\ IF IsReferenced(id)
     THEN /\ categories' = categories
          /\ categoryReply' = [id |-> id, status |-> 500, referenced |-> TRUE]
     ELSE /\ categories' = deleteCategory(id)
          /\ categoryReply' = [id |-> id, status |-> 200, referenced |-> FALSE]
  /\ UNCHANGED <<accounts, pages, snapshots, now, expenses, budgets, client, analytics, goals, trends>>

\* POST /api/goals served by createGoal; is_completed defaults to false.
CreateGoal(u, name, targetAmount, currentAmount) ==
  /\ Cardinality(goals) < MaxGoals
  /\ UserExists(u)
  /\ createGoal([userId |-> u, name |-> name, targetAmount |-> targetAmount,
                 currentAmount |-> currentAmount, isCompleted |-> FALSE,
                 categoryId |-> NULL])
  /\ UNCHANGED <<accounts, pages, snapshots, now, tables, client, analytics, categoryReply, trends>>

\* GET /api/dashboard/spending-trends: months = parseInt(query) || 6, then
\* getSpendingTrends; a failed query is answered 500.
GetSpendingTrends(u, queryMonths) ==
  /\ LET months == IF queryMonths = <<>> \/ queryMonths[1] = 0
                   THEN DefaultMonths ELSE queryMonths[1]
     IN  \E outcome \in IntervalOutcomes :
           trends' = {[userId |-> u, months |-> months, now |-> now,
                       status |-> (IF outcome = "bound" THEN 200 ELSE 500),
                       rows |-> (IF outcome = "bound"
                                 THEN getSpendingTrends(u, months, now)
                                 ELSE <<>>)]}
  /\ UNCHANGED <<accounts, pages, snapshots, now, tables, client, analytics, goals, categoryReply>>

\* Time passes.
Tick(later) ==
  /\ DateValue(later) > DateValue(now)
  /\ now' = later
  /\ UNCHANGED <<accounts, pages, ledger, snapshots, tables, client, analytics>>

\* ------------------------------------------------ accounts and sessions
\* What generateSessionId may return, and an id it never returned.
SessionIds == {"s1", "s2"}
UnknownSessionId == "s9"
\* createSession: a session lasts 30 days.
SessionDays == 30

\* DatabaseStorage.getUser and getUserByEmail: the rows the select returns.
getUser(id) == {u \in users : u.id = id}
getUserByEmail(email) == {u \in users : u.email = email}

\* users.email is unique: the insert of a second row with the email fails.
violatesUniqueEmailNever(email) == FALSE
violatesUniqueEmail(email) == \E u \in users : u.email = email

\* DatabaseStorage.getSession: where id = id and expires_at >= now().
getSessionOfAnyAge(id) == {s \in sessions : s.id = id}
getSession(id) ==
  {s \in sessions : s.id = id /\ DateValue(s.expiresAt) >= DateValue(now)}

\* DatabaseStorage.deleteSession: delete where id = id.
deleteSession(id) == {s \in sessions : s.id # id}

\* DatabaseStorage.cleanupExpiredSessions: delete where expires_at <= now().
cleanupExpiredSessions == {s \in sessions : ~(DateValue(s.expiresAt) <= DateValue(now))}

\* createSession (middleware/auth): a new id, expiring 30 days from now.
createSession(userId) ==
  \E id \in SessionIds \ issued :
    /\ sessions' = sessions \cup
         {[id |-> id, userId |-> userId,
           expiresAt |-> MakeDate(now.y, now.m, now.d + SessionDays, now.t)]}
    /\ issued' = issued \cup {id}

\* DatabaseStorage.deleteUser: delete from users where id = id.  The
\* user_id columns cascade, so the user's categories, transactions, budgets,
\* goals and sessions go with the row (no code inserts a notification).  The
\* category_id columns of expenses, budgets and goals reference
\* categories.id with no ON DELETE action: the statement fails, and changes
\* nothing, when a row that stays references a category that goes.
Cascaded(table, id) == {r \in table : r.userId # id}
deleteUserBlocked(id) ==
  \E c \in categories \ Cascaded(categories, id) :
    \E r \in Cascaded(expenses, id) \cup Cascaded(budgets, id) \cup Cascaded(goals, id) :
      r.categoryId = c.id

\* The clients that send requests: a browser, which sends the cookie the
\* server set, and a script, which sends the Authorization header too.
Clients == {"browser", "script"}
IdleAuthCall ==
  [pc |-> "idle", route |-> NULL, header |-> NULL, cookie |-> NULL,
   params |-> <<>>, body |-> <<>>, userId |-> NULL]
NoAuthReply == [status |-> 0, error |-> NULL]

\* requireAuth: the session id is the Authorization header without its
\* "Bearer " prefix or, when that is missing or empty, the cookie.
presentedSessionId(call) ==
  IF call.header \in {NULL, ""} THEN call.cookie ELSE call.header

Answer(c, status, error) ==
  /\ authReply' = [authReply EXCEPT ![c] = [status |-> status, error |-> error]]
  /\ authCall' = [authCall EXCEPT ![c] = IdleAuthCall]

\* POST /api/auth/login: a session for the user of the email when the
\* password matches, 401 and nothing otherwise.
Login(email, passwordMatches) ==
  /\ IF getUserByEmail(email) # {} /\ passwordMatches
     THEN createSession((CHOOSE u \in getUserByEmail(email) : TRUE).id)
     ELSE UNCHANGED <<sessions, issued>>
  /\ UNCHANGED <<now, tables, client, analytics, ledger, snapshots, pages,
                 users, registerCalls, authCall, authReply>>

\* The hourly setInterval of registerRoutes.
CleanupExpiredSessions ==
  /\ sessions' = cleanupExpiredSessions
  /\ sessions' # sessions
  /\ UNCHANGED <<now, tables, client, analytics, ledger, snapshots, pages,
                 users, issued, registerCalls, authCall, authReply>>

\* A request arrives on a route behind requireAuth.
Receive(c, route, header, cookie, params, body) ==
  /\ authCall[c].pc = "idle"
  /\ authCall' = [authCall EXCEPT ![c] =
       [pc |-> "getSession", route |-> route, header |-> header,
        cookie |-> cookie, params |-> params, body |-> body, userId |-> NULL]]
  /\ UNCHANGED <<now, tables, client, analytics, ledger, snapshots, pages,
                 users, sessions, issued, registerCalls, authReply>>

\* requireAuth up to its first await: no session id, or getSession.
RequireAuthGetSession(c) ==
  /\ authCall[c].pc = "getSession"
  /\ LET sessionId == presentedSessionId(authCall[c])
     IN  IF sessionId = NULL
         THEN Answer(c, 401, "No session provided")
         ELSE IF getSession(sessionId) = {}
         THEN Answer(c, 401, "Invalid or expired session")
         ELSE /\ authCall' = [authCall EXCEPT ![c].pc = "getUser",
                   ![c].userId = (CHOOSE s \in getSession(sessionId) : TRUE).userId]
              /\ UNCHANGED authReply
  /\ UNCHANGED <<now, tables, client, analytics, ledger, snapshots, pages,
                 users, sessions, issued, registerCalls>>

\* requireAuth after getSession: getUser, then next().
RequireAuthGetUser(c) ==
  /\ authCall[c].pc = "getUser"
  /\ IF getUser(authCall[c].userId) = {}
     THEN Answer(c, 401, "User not found")
     ELSE /\ authCall' = [authCall EXCEPT ![c].pc = "handler"]
          /\ UNCHANGED authReply
  /\ UNCHANGED <<now, tables, client, analytics, ledger, snapshots, pages,
                 users, sessions, issued, registerCalls>>

Handling(c, route) == authCall[c].pc = "handler" /\ authCall[c].route = route

\* GET /api/categories: a route that reads.
HandleGetCategories(c) ==
  /\ Handling(c, "GET /api/categories")
  /\ Answer(c, 200, NULL)
  /\ UNCHANGED <<now, tables, client, analytics, ledger, snapshots, pages,
                 users, sessions, issued, registerCalls>>

\* POST /api/auth/logout: deleteSession of the cookie's session id, when the
\* request has the cookie; { success: true } either way.
HandleLogout(c) ==
  /\ Handling(c, "POST /api/auth/logout")
  /\ sessions' = IF authCall[c].cookie # NULL
                 THEN deleteSession(authCall[c].cookie) ELSE sessions
  /\ Answer(c, 200, NULL)
  /\ UNCHANGED <<now, tables, client, analytics, ledger, snapshots, pages,
                 users, issued, registerCalls>>

\* DELETE /api/user/data served by deleteUser; a failed statement is
\* answered 500.
HandleDeleteUserData(c) ==
  /\ Handling(c, "DELETE /api/user/data")
  /\ LET id == authCall[c].userId
     IN  IF deleteUserBlocked(id)
         THEN /\ Answer(c, 500, "Failed to delete user data")
              /\ UNCHANGED <<tables, goals, users, sessions>>
         ELSE /\ users' = {u \in users : u.id # id}
              /\ categories' = Cascaded(categories, id)
              /\ expenses' = Cascaded(expenses, id)
              /\ budgets' = Cascaded(budgets, id)
              /\ goals' = Cascaded(goals, id)
              /\ sessions' = Cascaded(sessions, id)
              /\ Answer(c, 200, NULL)
  /\ CanWrite
  /\ Observe(expenses')
  /\ UNCHANGED <<now, client, analytics, categoryReply, trends, pages,
                 issued, registerCalls>>

\* PATCH /api/expenses/:id: updateExpense(req.params.id, req.body); the
\* user of the request is not passed on.
HandleUpdateExpense(c) ==
  /\ Handling(c, "PATCH /api/expenses/:id")
  /\ LET id == authCall[c].params[1]
         updates == authCall[c].body[1]
     IN  expenses' = IF \E e \in expenses : e.id = id
                     THEN (expenses \ {e \in expenses : e.id = id})
                            \cup {updateExpense(id, updates)}
                     ELSE expenses
  /\ Answer(c, 200, NULL)
  /\ CanWrite
  /\ Observe(expenses')
  /\ UNCHANGED <<now, categories, budgets, client, analytics, ledger,
                 pages, users, sessions, issued, registerCalls>>

\* DELETE /api/expenses/:id: deleteExpense(req.params.id, req.user.id).
HandleDeleteExpense(c) ==
  /\ Handling(c, "DELETE /api/expenses/:id")
  /\ expenses' = deleteExpense(authCall[c].params[1], authCall[c].userId)
  /\ Answer(c, 200, NULL)
  /\ CanWrite
  /\ Observe(expenses')
  /\ UNCHANGED <<now, categories, budgets, client, analytics, ledger,
                 pages, users, sessions, issued, registerCalls>>

\* DELETE /api/categories/:id: deleteCategory(req.params.id); the user of
\* the request is not passed on.
HandleDeleteCategory(c) ==
  /\ Handling(c, "DELETE /api/categories/:id")
  /\ IF IsReferenced(authCall[c].params[1])
     THEN /\ Answer(c, 500, "Failed to delete category")
          /\ UNCHANGED categories
     ELSE /\ categories' = deleteCategory(authCall[c].params[1])
          /\ Answer(c, 200, NULL)
  /\ UNCHANGED <<now, expenses, budgets, client, analytics, ledger, snapshots,
                 pages, users, sessions, issued, registerCalls>>

\* ---------------------------------------------------------- registration
\* The register requests the server may be serving at once.
MaxRegisters == 2
RegisterCalls == 1..MaxRegisters
Emails == {"ann@example.com", "bob@example.com"}
IdleRegisterCall ==
  [pc |-> "idle", email |-> NULL, status |-> 0, error |-> NULL, userId |-> NULL,
   sessionId |-> NULL]

\* POST /api/auth/register arrives with a body registerSchema accepts.
Register(r, email) ==
  /\ registerCalls[r].pc = "idle"
  /\ registerCalls' = [registerCalls EXCEPT ![r].pc = "getUserByEmail", ![r].email = email]
  /\ UNCHANGED <<now, tables, client, analytics, ledger, snapshots, pages,
                 users, sessions, issued, authCall, authReply>>

\* existingUser = await storage.getUserByEmail(email): 400 "User already
\* exists" when there is one.
RegisterGetUserByEmail(r) ==
  /\ registerCalls[r].pc = "getUserByEmail"
  /\ registerCalls' =
       IF getUserByEmail(registerCalls[r].email) # {}
       THEN [registerCalls EXCEPT ![r].pc = "done", ![r].status = 400,
                                  ![r].error = "User already exists"]
       ELSE [registerCalls EXCEPT ![r].pc = "createUser"]
  /\ UNCHANGED <<now, tables, client, analytics, ledger, snapshots, pages,
                 users, sessions, issued, authCall, authReply>>

\* user = await storage.createUser(...): the insert; when it fails the catch
\* answers 400 "Registration failed".
RegisterCreateUser(r) ==
  /\ registerCalls[r].pc = "createUser"
  /\ IF violatesUniqueEmail(registerCalls[r].email)
     THEN /\ registerCalls' = [registerCalls EXCEPT ![r].pc = "done", ![r].status = 400,
                                                      ![r].error = "Registration failed"]
          /\ UNCHANGED users
     ELSE \E id \in Users :
            /\ ~UserExists(id)
            /\ users' = users \cup {[id |-> id, email |-> registerCalls[r].email,
                                     onboardingCompleted |-> FALSE]}
            /\ registerCalls' = [registerCalls EXCEPT ![r].pc = "createSession",
                                                      ![r].userId = id]
  /\ UNCHANGED <<now, tables, client, analytics, ledger, snapshots, pages,
                 sessions, issued, authCall, authReply>>

\* sessionId = await createSession(user.id), the cookie and the answer.
RegisterCreateSession(r) ==
  /\ registerCalls[r].pc = "createSession"
  /\ createSession(registerCalls[r].userId)
  /\ registerCalls' = [registerCalls EXCEPT ![r].pc = "done", ![r].status = 200,
       ![r].sessionId = CHOOSE id \in issued' \ issued : TRUE]
  /\ UNCHANGED <<now, tables, client, analytics, ledger, snapshots, pages,
                 users, authCall, authReply>>

\* The response has been sent; the server may serve another request.
RegisterDone(r) ==
  /\ registerCalls[r].pc = "done"
  /\ registerCalls' = [registerCalls EXCEPT ![r] = IdleRegisterCall]
  /\ UNCHANGED <<now, tables, client, analytics, ledger, snapshots, pages,
                 users, sessions, issued, authCall, authReply>>

\* Two registered users, nobody logged in, no request in flight.
SampleUsers ==
  {[id |-> "u1", email |-> "ann@example.com", onboardingCompleted |-> TRUE],
   [id |-> "u2", email |-> "bob@example.com", onboardingCompleted |-> TRUE]}
NoCalls ==
  /\ registerCalls = [r \in RegisterCalls |-> IdleRegisterCall]
  /\ authCall = [c \in Clients |-> IdleAuthCall]
  /\ authReply = [c \in Clients |-> NoAuthReply]
InitAccounts ==
  /\ users = SampleUsers
  /\ sessions = {}
  /\ issued = {}
  /\ NoCalls

\* ------------------------------------------- Goals and Budget pages
\* The (method, path) pairs registerRoutes gives a handler.
Routes ==
  {<<"POST", "/api/auth/register">>, <<"POST", "/api/auth/login">>,
   <<"POST", "/api/auth/logout">>, <<"GET", "/api/auth/user">>,
   <<"PATCH", "/api/auth/user">>,
   <<"GET", "/api/categories">>, <<"POST", "/api/categories">>,
   <<"PATCH", "/api/categories/:id">>, <<"DELETE", "/api/categories/:id">>,
   <<"GET", "/api/expenses">>, <<"POST", "/api/expenses">>,
   <<"GET", "/api/expenses/:id">>, <<"PATCH", "/api/expenses/:id">>,
   <<"DELETE", "/api/expenses/:id">>,
   <<"GET", "/api/budgets">>, <<"POST", "/api/budgets">>,
   <<"GET", "/api/goals">>, <<"POST", "/api/goals">>,
   <<"GET", "/api/dashboard/stats">>, <<"GET", "/api/dashboard/category-breakdown">>,
   <<"GET", "/api/dashboard/spending-trends">>,
   <<"POST", "/api/ai/analyze-expense">>, <<"POST", "/api/ai/financial-advice">>,
   <<"GET", "/api/ai/spending-insights">>,
   <<"GET", "/api/currencies">>, <<"POST", "/api/currencies/convert">>,
   <<"POST", "/api/upload">>,
   <<"GET", "/api/notifications">>, <<"PATCH", "/api/notifications/:id/read">>,
   <<"DELETE", "/api/user/data">>, <<"GET", "/api/user/export">>}

\* The requests the pages may have in flight at once, and the add-progress
\* actions of one run.
MaxRequests == 2
MaxProgress == 3

\* DatabaseStorage.updateGoal: update ... set(updates) where id = id; the
\* rows after the update.
updateGoal(id, updates) ==
  {IF g.id = id
   THEN [f \in DOMAIN g |-> IF f \in DOMAIN updates THEN updates[f] ELSE g[f]]
   ELSE g : g \in goals}

Send(request) ==
  /\ Len(requests) < MaxRequests
  /\ requests' = Append(requests, request)

\* The Goals page's query of /api/goals resolves for its user.
FetchGoals(u) ==
  /\ goalsQuery' = [userId |-> u, loaded |-> TRUE,
                    data |-> {g \in goals : g.userId = u}]
  /\ UNCHANGED <<now, tables, client, analytics, ledger, snapshots, accounts,
                 requests, routeReply, progressLog, wizard>>

\* handleAddProgress: the new amount is the amount of the goal as the page
\* holds it plus the amount entered; isCompleted compares it to the target.
\* The tag progress is history: the amount entered.
handleAddProgress(goal, amount) ==
  LET newAmount == goal.currentAmount + amount
      isCompleted == newAmount >= goal.targetAmount
  IN  [method |-> "PATCH", path |-> "/api/goals/:id", id |-> goal.id,
       updates |-> <<[currentAmount |-> newAmount, isCompleted |-> isCompleted]>>,
       progress |-> <<amount>>]

ProgressCount ==
  Len(progressLog) + Cardinality({i \in 1..Len(requests) : requests[i].progress # <<>>})

HandleAddProgress(goal, amount) ==
  /\ goalsQuery.loaded
  /\ goal \in goalsQuery.data
  /\ ProgressCount < MaxProgress
  /\ Send(handleAddProgress(goal, amount))
  /\ UNCHANGED <<now, tables, client, analytics, ledger, snapshots, accounts,
                 goalsQuery, routeReply, progressLog, wizard>>

\* handleSubmit with a goal being edited: the form's values, which hold the
\* goal's isCompleted as handleEdit loaded it.
handleSubmit(goal, targetAmount, currentAmount) ==
  [method |-> "PATCH", path |-> "/api/goals/:id", id |-> goal.id,
   updates |-> <<[targetAmount |-> targetAmount, currentAmount |-> currentAmount,
                  isCompleted |-> goal.isCompleted]>>,
   progress |-> <<>>]

HandleSubmit(goal, targetAmount, currentAmount) ==
  /\ goalsQuery.loaded
  /\ goal \in goalsQuery.data
  /\ Send(handleSubmit(goal, targetAmount, currentAmount))
  /\ UNCHANGED <<now, tables, client, analytics, ledger, snapshots, accounts,
                 goalsQuery, routeReply, progressLog, wizard>>

\* deleteGoalMutation and deleteBudgetMutation: DELETE of the row's path.
DeleteGoal(goal) ==
  /\ goalsQuery.loaded
  /\ goal \in goalsQuery.data
  /\ Send([method |-> "DELETE", path |-> "/api/goals/:id", id |-> goal.id,
           updates |-> <<>>, progress |-> <<>>])
  /\ UNCHANGED <<now, tables, client, analytics, ledger, snapshots, accounts,
                 goalsQuery, routeReply, progressLog, wizard>>

DeleteBudget(budget) ==
  /\ budget \in budgets
  /\ Send([method |-> "DELETE", path |-> "/api/budgets/:id", id |-> budget.id,
           updates |-> <<>>, progress |-> <<>>])
  /\ UNCHANGED <<now, tables, client, analytics, ledger, snapshots, accounts,
                 goalsQuery, routeReply, progressLog, wizard>>

\* updateBudgetMutation: PATCH of the budget's path with the form's values.
UpdateBudget(budget, amount) ==
  /\ budget \in budgets
  /\ Send([method |-> "PATCH", path |-> "/api/budgets/:id", id |-> budget.id,
           updates |-> <<[amount |-> amount]>>, progress |-> <<>>])
  /\ UNCHANGED <<now, tables, client, analytics, ledger, snapshots, accounts,
                 goalsQuery, routeReply, progressLog, wizard>>

Without(seq, i) == SubSeq(seq, 1, i - 1) \o SubSeq(seq, i + 1, Len(seq))

\* The server receives a request no route of registerRoutes matches: no
\* handler runs and storage stays as it is.
Unrouted(i) ==
  /\ i \in 1..Len(requests)
  /\ <<requests[i].method, requests[i].path>> \notin Routes
  /\ routeReply' = {[method |-> requests[i].method, path |-> requests[i].path,
                     id |-> requests[i].id, routed |-> FALSE]}
  /\ requests' = Without(requests, i)
  /\ UNCHANGED <<now, tables, client, analytics, ledger, snapshots, accounts,
                 goalsQuery, progressLog, wizard>>

\* DatabaseStorage.updateGoal called with the id and the body of a PATCH
\* request for a goal, as the Goals page sends them.
UpdateGoal(i) ==
  /\ i \in 1..Len(requests)
  /\ requests[i].method = "PATCH" /\ requests[i].path = "/api/goals/:id"
  /\ goals' = updateGoal(requests[i].id, requests[i].updates[1])
  /\ progressLog' = IF requests[i].progress # <<>>
                    THEN Append(progressLog, [id |-> requests[i].id,
                                              amount |-> requests[i].progress[1]])
                    ELSE progressLog
  /\ requests' = Without(requests, i)
  /\ UNCHANGED <<now, tables, client, analytics, categoryReply, trends, snapshots,
                 accounts, goalsQuery, routeReply, wizard>>

\* ----------------------------------------------------- OnboardingWizard
\* Two of SUGGESTED_GOALS with their amounts, one of DEFAULT_CATEGORIES.
SuggestedGoals == {"Emergency Fund", "Vacation Fund"}
SuggestedAmount(name) == IF name = "Emergency Fund" THEN 5000 ELSE 2000
DefaultCategories == {"Food & Dining"}
\* The times the user presses the Finish button.
MaxAttempts == 2
\* What a route answers: its json, or the 500 of its catch.
ServerStatuses == {200, 500}

\* apiRequest (client/src/lib/queryClient.ts): the promise rejects when the
\* response is not a 2xx.
apiRequestRejects(status) == status # 200

NewWizard(u) ==
  [userId |-> u, selectedGoals |-> {}, selectedCategories |-> DefaultCategories,
   runs |-> <<>>, inflight |-> {}]

\* App.tsx shows the wizard until the user is onboardingCompleted.
WizardShown == \A a \in 1..Len(wizard.runs) : wizard.runs[a].pc # "finished"
\* The selections are made on the steps before the last one, where the
\* Finish button is: the user goes back to them when no run is under way.
CanSelect == \A a \in 1..Len(wizard.runs) : wizard.runs[a].pc = "failed"

\* The card of a suggested goal: selected goals are told apart by name.
ToggleGoal(name) ==
  /\ CanSelect
  /\ wizard' = [wizard EXCEPT !.selectedGoals =
       IF name \in @ THEN @ \ {name} ELSE @ \cup {name}]
  /\ UNCHANGED <<now, tables, client, analytics, ledger, snapshots, accounts,
                 goalsQuery, requests, routeReply, progressLog>>

\* toggleCategory.
ToggleCategory(name) ==
  /\ CanSelect
  /\ wizard' = [wizard EXCEPT !.selectedCategories =
       IF name \in @ THEN @ \ {name} ELSE @ \cup {name}]
  /\ UNCHANGED <<now, tables, client, analytics, ledger, snapshots, accounts,
                 goalsQuery, requests, routeReply, progressLog>>

\* The requests of one mutation of run a of handleFinish:
\* createGoalsMutation and createCategoriesMutation send one POST for each
\* item that was selected when Finish was pressed, all at once;
\* completeOnboardingMutation sends one PATCH.
RequestsOf(w, a, kind) ==
  LET names == IF kind = "goal" THEN w.runs[a].goals
               ELSE IF kind = "category" THEN w.runs[a].categories
               ELSE {"onboardingCompleted"}
  IN  {[kind |-> kind, name |-> n, attempt |-> a] : n \in names}

\* handleFinish from one await to the next: goals when any is selected, then
\* categories when any is selected, then the flag.
RECURSIVE Begin(_, _, _)
Begin(w, a, kind) ==
  IF RequestsOf(w, a, kind) # {}
  THEN [w EXCEPT !.runs[a].pc = kind, !.inflight = @ \cup RequestsOf(w, a, kind)]
  ELSE Begin(w, a, IF kind = "goal" THEN "category" ELSE "flag")

\* Promise.all settles a mutation once every request of it has been
\* answered well.
settlesOnFirstAnswer(w, request) == TRUE
settles(w, request) ==
  ~\E other \in w.inflight \ {request} :
     other.kind = request.kind /\ other.attempt = request.attempt

\* The Finish button, which is disabled while completeOnboardingMutation is
\* pending; a run keeps the selections of the moment it started.
HandleFinish ==
  /\ WizardShown
  /\ \A a \in 1..Len(wizard.runs) : wizard.runs[a].pc # "flag"
  /\ Len(wizard.runs) < MaxAttempts
  /\ wizard' = Begin([wizard EXCEPT !.runs = Append(@,
                        [pc |-> "goal", goals |-> wizard.selectedGoals,
                         categories |-> wizard.selectedCategories])],
                     Len(wizard.runs) + 1, "goal")
  /\ UNCHANGED <<now, tables, client, analytics, ledger, snapshots, accounts,
                 goalsQuery, requests, routeReply, progressLog>>

\* The wizard once the answer to one of its requests has come: an answer to
\* a mutation that has already been rejected changes nothing; a rejected
\* request takes its run of handleFinish to the catch; the last good answer
\* of a mutation takes the run to its next await, or to the end.
Answered(w, request, status) ==
  LET rest == [w EXCEPT !.inflight = @ \ {request}]
      a == request.attempt
  IN  IF w.runs[a].pc # request.kind THEN rest
      ELSE IF apiRequestRejects(status) THEN [rest EXCEPT !.runs[a].pc = "failed"]
      ELSE IF ~settles(w, request) THEN rest
      ELSE IF request.kind = "goal" THEN Begin(rest, a, "category")
      ELSE IF request.kind = "category" THEN Begin(rest, a, "flag")
      ELSE [rest EXCEPT !.runs[a].pc = "finished"]

\* gen_random_uuid() for the goal of a request of the wizard: an id no other
\* request gets.
WizardGoalId(request) ==
  10 * request.attempt + (IF request.name = "Emergency Fund" THEN 1 ELSE 2)

\* POST /api/goals with a goal of the wizard: createGoal with currentAmount
\* "0", or 500.
ServeWizardGoal(request, status) ==
  /\ request \in wizard.inflight /\ request.kind = "goal"
  /\ IF status = 200
     THEN /\ \A g \in goals : g.id # WizardGoalId(request)
          /\ goals' = goals \cup
               {[id |-> WizardGoalId(request), userId |-> wizard.userId,
                 name |-> request.name,
                 targetAmount |-> SuggestedAmount(request.name),
                 currentAmount |-> 0, isCompleted |-> FALSE, categoryId |-> NULL]}
     ELSE UNCHANGED goals
  /\ wizard' = Answered(wizard, request, status)
  /\ UNCHANGED <<now, tables, client, analytics, categoryReply, trends, snapshots,
                 accounts, goalsQuery, requests, routeReply, progressLog>>

\* POST /api/categories with a category of the wizard: createCategory, or
\* 500.
WizardCategoryIds == CategoryIds \cup {"c3"}
ServeWizardCategory(request, status) ==
  /\ request \in wizard.inflight /\ request.kind = "category"
  /\ IF status = 200
     THEN /\ \E id \in WizardCategoryIds : \A c \in categories : c.id # id
          /\ categories' = categories \cup
               {[id |-> CHOOSE id \in WizardCategoryIds : \A c \in categories : c.id # id,
                 userId |-> wizard.userId, name |-> request.name,
                 color |-> "#10B981"]}
     ELSE UNCHANGED categories
  /\ wizard' = Answered(wizard, request, status)
  /\ UNCHANGED <<now, expenses, budgets, client, analytics, ledger, snapshots,
                 accounts, goalsQuery, requests, routeReply, progressLog>>

\* PATCH /api/auth/user with { onboardingCompleted: true }: updateUser of
\* the user of the request, or 500.
ServeCompleteOnboarding(request, status) ==
  /\ request \in wizard.inflight /\ request.kind = "flag"
  /\ users' = IF status = 200
              THEN {IF u.id = wizard.userId
                    THEN [u EXCEPT !.onboardingCompleted = TRUE] ELSE u : u \in users}
              ELSE users
  /\ wizard' = Answered(wizard, request, status)
  /\ UNCHANGED <<now, tables, client, analytics, ledger, snapshots,
                 sessions, issued, registerCalls, authCall, authReply,
                 goalsQuery, requests, routeReply, progressLog>>

InitPages ==
  /\ goalsQuery = [userId |-> "u1", loaded |-> FALSE, data |-> {}]
  /\ requests = <<>>
  /\ routeReply = {}
  /\ progressLog = <<>>
  /\ wizard = NewWizard("u1")

\* ------------------------------------------------------ sample inputs
\* Two of the categories the onboarding wizard offers.
SampleCategories ==
  {[id |-> "c1", userId |-> "u1", name |-> "Food & Dining", color |-> "#10B981"],
   [id |-> "c2", userId |-> "u1", name |-> "Transportation", color |-> "#3B82F6"]}

\* Budget windows: start A = 31 Jan 2024 (weekly end 7 Feb, setMonth end
\* 2 Mar, while February ends on the 29th); start B = 1 Mar 2024, which lies
\* after the clock of the budget evaluations, 10 Feb 2024.
BudgetStartDates == {MakeDate(2024, 0, 31, 0), MakeDate(2024, 2, 1, 0)}
BudgetExpenseDates ==
  {MakeDate(2024, 0, 30, 0), MakeDate(2024, 0, 31, 0), MakeDate(2024, 1, 7, 0),
   MakeDate(2024, 2, 1, 0), MakeDate(2024, 2, 2, 0)}
BudgetNow == MakeDate(2024, 1, 10, 1)

\* Analytics: the clock is 15 Mar 2024; transactions lie before February,
\* at its start, on its last day (at 00:00 and later), at the start of
\* March and at the start of April.
AnalyticsNow == MakeDate(2024, 2, 15, 1)
AnalyticsExpenseDates ==
  {MakeDate(2024, 0, 31, 1), MakeDate(2024, 1, 1, 0), MakeDate(2024, 1, 29, 0),
   MakeDate(2024, 1, 29, 1), MakeDate(2024, 2, 1, 0), MakeDate(2024, 3, 1, 0)}
\* What the query string of the breakdown route may carry: no period, a
\* token the switch knows, or one it does not (the Analytics page's
\* "lastYear").
QueryPeriods == {NULL, "thisMonth", "lastMonth", "thisYear", "lastYear"}

\* What a request body may carry where the schema asks for a decimal: the
\* text of any number, a negative one or a threshold above 1 included.
BodyAmounts == {40, -50}
BodyTargets == {200, -50}
BodyThresholds == {80, 150}
\* Ledger: transactions of February and of March 2024, moved and re-priced
\* by PATCH /api/expenses/:id.
LedgerDates == {MakeDate(2024, 1, 1, 0), MakeDate(2024, 2, 1, 0)}
LedgerUpdates == {[amount |-> a] : a \in BodyAmounts} \cup {[date |-> d] : d \in LedgerDates}
CatalogUpdates == {[amount |-> a] : a \in BodyAmounts} \cup {[categoryId |-> NULL]}
\* Trends: the clock is 15 Mar 2024; transactions lie in September 2023
\* (after the 15th), October 2023, January to April 2024.
TrendsExpenseDates ==
  {MakeDate(2023, 8, 20, 0), MakeDate(2023, 9, 5, 0), MakeDate(2024, 0, 31, 1),
   MakeDate(2024, 1, 29, 0), MakeDate(2024, 2, 1, 0), MakeDate(2024, 3, 1, 0)}
\* The months parameter of the trends route: absent (the empty list), or
\* the integer parseInt reads from it.
QueryMonths == {<<>>, <<0>>, <<1>>, <<2>>}

\* Sessions: the clock runs from 15 Mar 2024 to the instant a session of
\* that day expires (14 Apr, same tick) and past it (15 Apr).
SessionTicks == {MakeDate(2024, 3, 14, 1), MakeDate(2024, 3, 15, 0)}
\* Routes behind requireAuth that take neither a parameter nor a body.
SessionRoutes == {"GET /api/categories", "POST /api/auth/logout", "DELETE /api/user/data"}
\* Goals page: a goal of 200 is created with nothing or with all of it
\* saved, and edited to a target of 100.
GoalTargets == {200}
GoalAmounts == {0, 200}
EditTargets == {200, 100}

\* ------------------------------------------------------ specifications
UnloadedQuery(u) == [userId |-> u, loaded |-> FALSE, data |-> {}]

Init ==
  /\ now = BudgetNow
  /\ expenses = {}
  /\ categories = {}
  /\ budgets = {}
  /\ \E u \in Users : expensesQuery = UnloadedQuery(u)
  /\ progress = {}
  /\ statsCall = IdleStatsCall
  /\ stats = {}
  /\ breakdown = {}
  /\ goals = {}
  /\ categoryReply = NoReply
  /\ trends = {}
  /\ snapshots = {}
  /\ InitAccounts
  /\ InitPages

Next ==
  \/ \E category \in SampleCategories : CreateCategory(category)
  \/ \E u \in Users, amount \in Amounts, type \in Types,
        categoryId \in CategoryIds \cup {NULL},
        date \in BudgetExpenseDates \cup AnalyticsExpenseDates :
       CreateExpense(u, amount, type, categoryId, date)
  \/ \E u \in Users, categoryId \in {NULL, "c1"}, amount \in BudgetAmounts,
        period \in Periods, startDate \in BudgetStartDates,
        alertThreshold \in AlertThresholds :
       CreateBudget(u, categoryId, amount, period, startDate, alertThreshold)
  \/ FetchExpenses
  \/ \E budget \in budgets : CalculateBudgetProgress(budget)
  \/ \E u \in Users : GetDashboardStats(u)
  \/ QueryThisMonthExpenses
  \/ QueryThisMonthIncome
  \/ QueryLastMonthExpenses
  \/ QueryLastMonthIncome
  \/ \E u \in Users, queryPeriod \in QueryPeriods : GetCategoryBreakdown(u, queryPeriod)
  \/ \E e \in expenses, updates \in LedgerUpdates \cup CatalogUpdates :
       UpdateExpense(e.id, updates)
  \/ \E e \in expenses, u \in Users : DeleteExpense(e.id, u)
  \/ \E id \in CategoryIds : DeleteCategory(id)
  \/ \E u \in Users, targetAmount \in BodyTargets : CreateGoal(u, "Emergency Fund", targetAmount, 0)
  \/ \E u \in Users, queryMonths \in QueryMonths : GetSpendingTrends(u, queryMonths)
  \/ \E later \in {BudgetNow, AnalyticsNow} \cup SessionTicks : Tick(later)
  \/ \E email \in Emails, passwordMatches \in BOOLEAN : Login(email, passwordMatches)
  \/ CleanupExpiredSessions
  \/ \E r \in RegisterCalls, email \in Emails : Register(r, email)
  \/ \E r \in RegisterCalls :
       \/ RegisterGetUserByEmail(r)
       \/ RegisterCreateUser(r)
       \/ RegisterCreateSession(r)
       \/ RegisterDone(r)
  \/ \E c \in Clients, route \in SessionRoutes,
        header \in {NULL, UnknownSessionId} \cup SessionIds,
        cookie \in {NULL} \cup SessionIds :
       Receive(c, route, header, cookie, <<>>, <<>>)
  \/ \E c \in Clients, cookie \in SessionIds, e \in expenses, updates \in LedgerUpdates :
       \/ Receive(c, "PATCH /api/expenses/:id", NULL, cookie, <<e.id>>, <<updates>>)
       \/ Receive(c, "DELETE /api/expenses/:id", NULL, cookie, <<e.id>>, <<>>)
  \/ \E c \in Clients, cookie \in SessionIds, id \in CategoryIds :
       Receive(c, "DELETE /api/categories/:id", NULL, cookie, <<id>>, <<>>)
  \/ \E c \in Clients :
       \/ RequireAuthGetSession(c)
       \/ RequireAuthGetUser(c)
       \/ HandleGetCategories(c)
       \/ HandleLogout(c)
       \/ HandleDeleteUserData(c)
       \/ HandleUpdateExpense(c)
       \/ HandleDeleteExpense(c)
       \/ HandleDeleteCategory(c)
  \/ \E u \in Users : FetchGoals(u)
  \/ \E goal \in goals, amount \in Amounts : HandleAddProgress(goal, amount)
  \/ \E goal \in goals, targetAmount \in EditTargets :
       HandleSubmit(goal, targetAmount, goal.currentAmount)
  \/ \E goal \in goals : DeleteGoal(goal)
  \/ \E budget \in budgets : DeleteBudget(budget)
  \/ \E budget \in budgets, amount \in BudgetAmounts : UpdateBudget(budget, amount)
  \/ \E i \in 1..MaxRequests : Unrouted(i)
  \/ \E name \in SuggestedGoals : ToggleGoal(name)
  \/ \E name \in DefaultCategories : ToggleCategory(name)
  \/ HandleFinish
  \/ \E request \in wizard.inflight, status \in ServerStatuses :
       \/ ServeWizardGoal(request, status)
       \/ ServeWizardCategory(request, status)
       \/ ServeCompleteOnboarding(request, status)

Spec == Init /\ [][Next]_vars

\* A total order on expense rows, used only to draw each table once.
IndexOf(x, seq) == CHOOSE i \in 1..Len(seq) : seq[i] = x
ExpenseKey(e) ==
  <<DateValue(e.date), e.amount, IndexOf(e.type, <<"expense", "income">>),
    IndexOf(e.categoryId, <<NULL, "c1", "c2">>), IndexOf(e.userId, <<"u1", "u2">>)>>
RECURSIVE LexLE(_, _)
LexLE(s, t) ==
  \/ s = <<>>
  \/ Head(s) < Head(t)
  \/ Head(s) = Head(t) /\ LexLE(Tail(s), Tail(t))

\* The expenses tables of at most MaxExpenses rows drawn from `universe`.
ExpenseTables(universe) ==
  UNION {
    { {[id |-> i] @@ f[i] : i \in 1..k} :
        f \in {g \in [1..k -> universe] :
                 \A i \in 1..k, j \in 1..k :
                   i < j => LexLE(ExpenseKey(g[i]), ExpenseKey(g[j]))} }
    : k \in 0..MaxExpenses }

\* Budget evaluation: the page of user u1, one budget of hers, and a table
\* of her transactions around the budget's window.  The filter tests the
\* type first, so one amount and one category do for the income rows.
BudgetExpenseUniverse ==
  [userId : {"u1"}, amount : Amounts, type : {"expense"}, categoryId : CategoryIds,
   date : BudgetExpenseDates]
  \cup
  [userId : {"u1"}, amount : {40}, type : {"income"}, categoryId : {"c1"},
   date : BudgetExpenseDates]
BudgetUniverse ==
  [id : {1}, userId : {"u1"}, categoryId : {NULL, "c1"}, amount : BudgetAmounts,
   period : Periods, startDate : BudgetStartDates, alertThreshold : AlertThresholds]

InitBudget ==
  /\ now = BudgetNow
  /\ expenses \in ExpenseTables(BudgetExpenseUniverse)
  /\ categories = SampleCategories
  /\ \E b \in BudgetUniverse : budgets = {b}
  /\ expensesQuery = UnloadedQuery("u1")
  /\ progress = {}
  /\ statsCall = IdleStatsCall
  /\ stats = {}
  /\ breakdown = {}
  /\ goals = {}
  /\ categoryReply = NoReply
  /\ trends = {}
  /\ snapshots = {}
  /\ InitAccounts
  /\ InitPages

NextBudget ==
  \/ FetchExpenses
  \/ \E budget \in budgets : CalculateBudgetProgress(budget)

SpecBudget == InitBudget /\ [][NextBudget]_vars

\* Analytics: user u1 asks for her stats and breakdowns over a table of her
\* transactions of both types, with and without a category, and two rows of
\* another user dated in the current month.
AnalyticsExpenseUniverse ==
  [userId : {"u1"}, amount : Amounts, type : Types, categoryId : {NULL, "c1"},
   date : AnalyticsExpenseDates]
  \cup
  [userId : {"u2"}, amount : {40}, type : Types, categoryId : {NULL},
   date : {MakeDate(2024, 2, 1, 0)}]

InitAnalytics ==
  /\ now = AnalyticsNow
  /\ expenses \in ExpenseTables(AnalyticsExpenseUniverse)
  /\ categories = SampleCategories
  /\ budgets = {}
  /\ expensesQuery = UnloadedQuery("u1")
  /\ progress = {}
  /\ statsCall = IdleStatsCall
  /\ stats = {}
  /\ breakdown = {}
  /\ goals = {}
  /\ categoryReply = NoReply
  /\ trends = {}
  /\ snapshots = {}
  /\ InitAccounts
  /\ InitPages

NextAnalytics ==
  \/ GetDashboardStats("u1")
  \/ QueryThisMonthExpenses
  \/ QueryThisMonthIncome
  \/ QueryLastMonthExpenses
  \/ QueryLastMonthIncome
  \/ \E queryPeriod \in QueryPeriods : GetCategoryBreakdown("u1", queryPeriod)

SpecAnalytics == InitAnalytics /\ [][NextAnalytics]_vars

\* Ledger: user u1 creates, edits and deletes her transactions while her
\* dashboard stats are computed.
InitLedger ==
  /\ now = AnalyticsNow
  /\ expenses = {}
  /\ categories = SampleCategories
  /\ budgets = {}
  /\ expensesQuery = UnloadedQuery("u1")
  /\ progress = {}
  /\ statsCall = IdleStatsCall
  /\ stats = {}
  /\ breakdown = {}
  /\ goals = {}
  /\ categoryReply = NoReply
  /\ trends = {}
  /\ snapshots = {}
  /\ InitAccounts
  /\ InitPages

NextLedger ==
  \/ \E type \in Types, date \in LedgerDates : CreateExpense("u1", 40, type, NULL, date)
  \/ \E e \in expenses, updates \in LedgerUpdates : UpdateExpense(e.id, updates)
  \/ \E e \in expenses : DeleteExpense(e.id, "u1")
  \/ GetDashboardStats("u1")
  \/ QueryThisMonthExpenses
  \/ QueryThisMonthIncome
  \/ QueryLastMonthExpenses
  \/ QueryLastMonthIncome

SpecLedger == InitLedger /\ [][NextLedger]_vars

\* Catalog: user u1 keeps categories, transactions, a budget and a goal,
\* deletes categories and asks for this month's breakdown.
NextCatalog ==
  \/ \E category \in SampleCategories : CreateCategory(category)
  \/ \E id \in CategoryIds : DeleteCategory(id)
  \/ \E categoryId \in {NULL, "c1"} :
       CreateExpense("u1", 40, "expense", categoryId, MakeDate(2024, 2, 1, 0))
  \/ \E e \in expenses, updates \in CatalogUpdates : UpdateExpense(e.id, updates)
  \/ \E e \in expenses : DeleteExpense(e.id, "u1")
  \/ \E categoryId \in {NULL, "c2"}, amount \in BodyTargets,
        alertThreshold \in BodyThresholds :
       CreateBudget("u1", categoryId, amount, "monthly", MakeDate(2024, 2, 1, 0),
                    alertThreshold)
  \/ \E targetAmount \in BodyTargets : CreateGoal("u1", "Emergency Fund", targetAmount, 0)
  \/ GetCategoryBreakdown("u1", NULL)

SpecCatalog == InitLedger /\ [][NextCatalog]_vars

\* Trends: user u1 asks for her spending trends over a table of her
\* transactions and one row of another user.
TrendsExpenseUniverse ==
  [userId : {"u1"}, amount : {40}, type : Types, categoryId : {NULL},
   date : TrendsExpenseDates]
  \cup
  [userId : {"u2"}, amount : {40}, type : {"expense"}, categoryId : {NULL},
   date : {MakeDate(2024, 1, 29, 0)}]

InitTrends ==
  /\ now = AnalyticsNow
  /\ expenses \in ExpenseTables(TrendsExpenseUniverse)
  /\ categories = SampleCategories
  /\ budgets = {}
  /\ expensesQuery = UnloadedQuery("u1")
  /\ progress = {}
  /\ statsCall = IdleStatsCall
  /\ stats = {}
  /\ breakdown = {}
  /\ goals = {}
  /\ categoryReply = NoReply
  /\ trends = {}
  /\ snapshots = {}
  /\ InitAccounts
  /\ InitPages

NextTrends == \E queryMonths \in QueryMonths : GetSpendingTrends("u1", queryMonths)

SpecTrends == InitTrends /\ [][NextTrends]_vars

\* Breakdown: user u1 asks for her breakdowns over a table of transactions
\* without a category and of either sample category, dated on the last day
\* of February and on the first of March, and one row of another user.
BreakdownExpenseUniverse ==
  [userId : {"u1"}, amount : Amounts, type : Types, categoryId : CategoryIds \cup {NULL},
   date : {MakeDate(2024, 1, 29, 0), MakeDate(2024, 2, 1, 0)}]
  \cup
  [userId : {"u2"}, amount : {40}, type : {"expense"}, categoryId : {NULL},
   date : {MakeDate(2024, 2, 1, 0)}]

InitBreakdown ==
  /\ now = AnalyticsNow
  /\ expenses \in ExpenseTables(BreakdownExpenseUniverse)
  /\ categories = SampleCategories
  /\ budgets = {}
  /\ expensesQuery = UnloadedQuery("u1")
  /\ progress = {}
  /\ statsCall = IdleStatsCall
  /\ stats = {}
  /\ breakdown = {}
  /\ goals = {}
  /\ categoryReply = NoReply
  /\ trends = {}
  /\ snapshots = {}
  /\ InitAccounts
  /\ InitPages

NextBreakdown == \E queryPeriod \in QueryPeriods : GetCategoryBreakdown("u1", queryPeriod)

SpecBreakdown == InitBreakdown /\ [][NextBreakdown]_vars

\* Registration: nobody is registered, and register requests for two
\* emails are served at once.
Unused ==
  /\ now = AnalyticsNow
  /\ expenses = {}
  /\ budgets = {}
  /\ expensesQuery = UnloadedQuery("u1")
  /\ progress = {}
  /\ statsCall = IdleStatsCall
  /\ stats = {}
  /\ breakdown = {}
  /\ goals = {}
  /\ categoryReply = NoReply
  /\ trends = {}
  /\ snapshots = {}
  /\ sessions = {}
  /\ issued = {}
  /\ NoCalls
  /\ InitPages

InitRegister ==
  /\ Unused
  /\ categories = {}
  /\ users = {}

NextRegister ==
  \/ \E r \in RegisterCalls, email \in Emails : Register(r, email)
  \/ \E r \in RegisterCalls :
       \/ RegisterGetUserByEmail(r)
       \/ RegisterCreateUser(r)
       \/ RegisterCreateSession(r)
       \/ RegisterDone(r)

SpecRegister == InitRegister /\ [][NextRegister]_vars

\* Sessions: Ann logs in, from a browser and from a script, sends requests,
\* logs out and deletes her data while time passes.
NextSessions ==
  \/ \E passwordMatches \in BOOLEAN : Login("ann@example.com", passwordMatches)
  \/ CleanupExpiredSessions
  \/ \E later \in SessionTicks : Tick(later)
  \/ \E route \in SessionRoutes, cookie \in {NULL} \cup SessionIds :
       Receive("browser", route, NULL, cookie, <<>>, <<>>)
  \/ \E route \in SessionRoutes, header \in {"s1", UnknownSessionId},
        cookie \in {NULL, "s2"} :
       Receive("script", route, header, cookie, <<>>, <<>>)
  \/ \E c \in Clients :
       \/ RequireAuthGetSession(c)
       \/ RequireAuthGetUser(c)
       \/ HandleGetCategories(c)
       \/ HandleLogout(c)
       \/ HandleDeleteUserData(c)

SpecSessions == InitLedger /\ [][NextSessions]_vars

\* Accounts: Ann and Bob log in from a browser, record transactions under
\* Ann's categories, edit and delete rows by id, and delete their data.
NextAccounts ==
  \/ \E email \in Emails : Login(email, TRUE)
  \/ \E u \in Users, categoryId \in {NULL, "c1"} :
       CreateExpense(u, 40, "expense", categoryId, MakeDate(2024, 2, 1, 0))
  \/ \E cookie \in SessionIds :
       \/ Receive("browser", "DELETE /api/user/data", NULL, cookie, <<>>, <<>>)
       \/ \E e \in expenses :
            \/ Receive("browser", "PATCH /api/expenses/:id", NULL, cookie,
                       <<e.id>>, <<[amount |-> 180]>>)
            \/ Receive("browser", "DELETE /api/expenses/:id", NULL, cookie, <<e.id>>, <<>>)
       \/ \E id \in CategoryIds :
            Receive("browser", "DELETE /api/categories/:id", NULL, cookie, <<id>>, <<>>)
  \/ RequireAuthGetSession("browser")
  \/ RequireAuthGetUser("browser")
  \/ HandleDeleteUserData("browser")
  \/ HandleUpdateExpense("browser")
  \/ HandleDeleteExpense("browser")
  \/ HandleDeleteCategory("browser")

SpecAccounts == InitLedger /\ [][NextAccounts]_vars

\* Goals page: Ann keeps a goal and a budget, and the Goals and Budget pages
\* send her changes to the server.
NextGoalsPage ==
  \/ \E targetAmount \in GoalTargets, currentAmount \in GoalAmounts :
       CreateGoal("u1", "Emergency Fund", targetAmount, currentAmount)
  \/ CreateBudget("u1", NULL, 200, "monthly", MakeDate(2024, 2, 1, 0), 80)
  \/ FetchGoals("u1")
  \/ \E goal \in goals, amount \in Amounts : HandleAddProgress(goal, amount)
  \/ \E goal \in goals, targetAmount \in EditTargets :
       HandleSubmit(goal, targetAmount, goal.currentAmount)
  \/ \E goal \in goals : DeleteGoal(goal)
  \/ \E budget \in budgets : DeleteBudget(budget)
  \/ \E budget \in budgets, amount \in BudgetAmounts : UpdateBudget(budget, amount)
  \/ \E i \in 1..MaxRequests : Unrouted(i)

SpecGoalsPage == InitLedger /\ [][NextGoalsPage]_vars

\* Goal storage: the add-progress requests of the Goals page, each applied
\* by updateGoal.
NextGoalStorage ==
  \/ CreateGoal("u1", "Emergency Fund", 200, 0)
  \/ FetchGoals("u1")
  \/ \E goal \in goals, amount \in Amounts : HandleAddProgress(goal, amount)
  \/ \E i \in 1..MaxRequests : UpdateGoal(i)

SpecGoalStorage == InitLedger /\ [][NextGoalStorage]_vars

\* Onboarding: Ann has just registered and goes through the wizard.
InitOnboarding ==
  /\ Unused
  /\ categories = {}
  /\ users = {[id |-> "u1", email |-> "ann@example.com", onboardingCompleted |-> FALSE]}

NextOnboarding ==
  \/ \E name \in SuggestedGoals : ToggleGoal(name)
  \/ \E name \in DefaultCategories : ToggleCategory(name)
  \/ HandleFinish
  \/ \E request \in wizard.inflight, status \in ServerStatuses :
       \/ ServeWizardGoal(request, status)
       \/ ServeWizardCategory(request, status)
       \/ ServeCompleteOnboarding(request, status)

SpecOnboarding == InitOnboarding /\ [][NextOnboarding]_vars

\* ------------------------------------------------ budget evaluation
\* The status the precedence rule gives a percentage num/den.
StatusByPrecedence(percentage, alertThreshold) ==
  IF percentage.kind = "finite" /\ percentage.num >= 100 * percentage.den
  THEN "over-budget"
  ELSE IF percentage.kind = "finite" /\ percentage.num >= alertThreshold * percentage.den
  THEN "warning"
  ELSE "on-track"

InBudgetWindow(budget, data) ==
  {e \in data :
     /\ e.type = "expense"
     /\ DateValue(budget.startDate) <= DateValue(e.date)
     /\ DateValue(e.date) < DateValue(endDate(budget))
     /\ (budget.categoryId # NULL => e.categoryId = budget.categoryId)}

\* C2: spent is the sum of exactly the expense-type transactions dated
\* inside the budget's window [startDate, endDate) that have the budget's
\* category, or any category when the budget has none.
SpentIsSumOverWindow ==
  \A p \in progress :
    p.loaded => p.spent = SumAmounts(InBudgetWindow(p.budget, p.expenses))

\* C3: the window is half-open: no transaction dated at the window's end
\* instant is counted, and every matching expense dated at startDate is.
WindowIsHalfOpen ==
  \A p \in progress :
    p.loaded =>
      /\ \A e \in p.categoryExpenses :
           DateValue(e.date) # DateValue(endDate(p.budget))
      /\ \A e \in p.expenses :
           (/\ e.type = "expense"
            /\ DateValue(e.date) = DateValue(p.budget.startDate)
            /\ (p.budget.categoryId # NULL => e.categoryId = p.budget.categoryId))
           => e \in p.categoryExpenses

\* The day after a date, by the calendar.
NextDay(dt) ==
  IF dt.d < DaysInMonth(dt.y, dt.m) THEN [dt EXCEPT !.d = dt.d + 1]
  ELSE IF dt.m < 11 THEN [dt EXCEPT !.m = dt.m + 1, !.d = 1]
  ELSE [dt EXCEPT !.y = dt.y + 1, !.m = 0, !.d = 1]

RECURSIVE PlusDays(_, _)
PlusDays(dt, n) == IF n = 0 THEN dt ELSE PlusDays(NextDay(dt), n - 1)

MonthIndex(dt) == dt.y * 12 + dt.m

\* C4: the window's end is startDate + 7 days (weekly), the same day one
\* calendar year later (yearly), and for a monthly budget an instant of the
\* calendar month that follows startDate's month, whatever the start day.
EndDateByCalendar ==
  \A p \in progress :
    p.loaded =>
      LET startDate == p.budget.startDate
          end == endDate(p.budget)
      IN  /\ p.budget.period = "weekly" => end = PlusDays(startDate, 7)
          /\ p.budget.period = "yearly" =>
               end = [startDate EXCEPT !.y = startDate.y + 1]
          /\ p.budget.period = "monthly" => MonthIndex(end) = MonthIndex(startDate) + 1

\* C5: a budget whose startDate is later than the clock has spent = 0.
FutureBudgetSpendsNothing ==
  \A p \in progress :
    DateValue(p.budget.startDate) > DateValue(p.now) => p.spent = 0

\* C6: a budget of amount 0 has percentage 0, whatever was spent.
ZeroAmountGivesZeroPercentage ==
  \A p \in progress :
    p.budget.amount = 0 => p.percentage = Num(0)

ZeroAmountWithSpending ==
  \E p \in progress :
    /\ p.loaded
    /\ p.budget.amount = 0
    /\ p.spent > 0
    /\ p.percentage = Num(0)

\* ----------------------------------------------- dashboard analytics
\* The first instant of the calendar month `months` after the clock's.
MonthStart(clock, months) ==
  LET index == MonthIndex(clock) + months
  IN  [y |-> index \div 12, m |-> index % 12, d |-> 1, t |-> 0]

\* The user's rows of one type dated in [start, end).
InWindow(userId, type, start, end) ==
  {e \in expenses :
     /\ e.userId = userId
     /\ e.type = type
     /\ DateValue(start) <= DateValue(e.date)
     /\ DateValue(e.date) < DateValue(end)}

\* The breakdown's rows are the per-category sums of `window`.
RowsAggregate(rows, window) ==
  /\ {row.categoryId : row \in rows} = {e.categoryId : e \in window}
  /\ \A row \in rows :
       row.amount = SumAmounts({e \in window : e.categoryId = row.categoryId})

\* C7: a period token the breakdown does not recognize fails: no breakdown
\* is returned for it (in place of the one of the thisMonth window).
UnknownPeriodFails ==
  \A r \in breakdown : r.period \in PeriodTokens

\* C8: the lastMonth breakdown aggregates exactly the expenses dated in
\* [first day of the previous month, first day of the current month).
LastMonthBreakdownWindow ==
  \A r \in breakdown :
    r.period = "lastMonth" =>
      RowsAggregate(r.rows, InWindow(r.userId, "expense",
                                     MonthStart(r.now, -1), MonthStart(r.now, 0)))

\* C9: the lastMonth sums of the stats cover the whole of
\* [first day of the previous month, first day of the current month).
LastMonthSumsCoverMonth ==
  \A s \in stats :
    /\ s.lastMonthExpenses =
         SumAmounts(InWindow(s.userId, "expense", MonthStart(s.now, -1), MonthStart(s.now, 0)))
    /\ s.lastMonthIncome =
         SumAmounts(InWindow(s.userId, "income", MonthStart(s.now, -1), MonthStart(s.now, 0)))

\* C10: the thisMonth window ends at the clock or at the start of the next
\* month: the thisMonth sums of the stats and the thisMonth breakdown count
\* nothing dated at or after the first day of the next month.
ThisMonthBoundedAbove ==
  /\ \A s \in stats :
       \E end \in {s.now, MonthStart(s.now, 1)} :
         /\ s.thisMonthExpenses =
              SumAmounts(InWindow(s.userId, "expense", MonthStart(s.now, 0), end))
         /\ s.thisMonthIncome =
              SumAmounts(InWindow(s.userId, "income", MonthStart(s.now, 0), end))
  /\ \A r \in breakdown :
       r.period = "thisMonth" =>
         \E end \in {r.now, MonthStart(r.now, 1)} :
           RowsAggregate(r.rows, InWindow(r.userId, "expense", MonthStart(r.now, 0), end))

\* (a - b) / b * 100 for a non-zero b, and 0 for b = 0.
RatioOfChange(a, b) == IF b # 0 THEN JsTimes(JsDiv(a - b, b), 100) ELSE Num(0)

\* C11: expenseChange is (thisMonthExpenses - lastMonthExpenses) /
\* lastMonthExpenses * 100 when lastMonthExpenses is non-zero and 0 when it
\* is 0, whatever thisMonthExpenses is; incomeChange likewise from the
\* income sums.
ChangeIsRatioToLastMonth ==
  \A s \in stats :
    /\ s.expenseChange = RatioOfChange(s.thisMonthExpenses, s.lastMonthExpenses)
    /\ s.incomeChange = RatioOfChange(s.thisMonthIncome, s.lastMonthIncome)

\* C12: savingsRate is (thisMonthIncome - thisMonthExpenses) /
\* thisMonthIncome * 100 when thisMonthIncome is non-zero, and 0 when it is 0,
\* whatever thisMonthExpenses is.
SavingsRateIsShareOfIncome ==
  \A s \in stats :
    s.savingsRate =
      (IF s.thisMonthIncome # 0
       THEN JsTimes(JsDiv(s.thisMonthIncome - s.thisMonthExpenses, s.thisMonthIncome), 100)
       ELSE Num(0))

\* The window [start, end) of a period token the breakdown knows; a window
\* that reaches the present may end at the clock or with its calendar unit.
PeriodWindows(period, clock) ==
  CASE period = "thisMonth" ->
         {<<MonthStart(clock, 0), end>> : end \in {clock, MonthStart(clock, 1)}}
    [] period = "lastMonth" ->
         {<<MonthStart(clock, -1), MonthStart(clock, 0)>>}
    [] period = "thisYear" ->
         {<<MakeDate(clock.y, 0, 1, 0), end>> : end \in {clock, MakeDate(clock.y + 1, 0, 1, 0)}}

\* C13: the amounts of the breakdown's rows add up to the sum of the user's
\* expense-type transactions in the period's window; every expense of the
\* window is counted in exactly one row (the one of its category) and no
\* income row is counted anywhere.
BreakdownAmountsPartitionWindow ==
  \A r \in breakdown :
    r.period \in PeriodTokens =>
      \E w \in PeriodWindows(r.period, r.now) :
        LET window == InWindow(r.userId, "expense", w[1], w[2])
        IN  /\ SumAmounts(r.rows) = SumAmounts(window)
            /\ RowsAggregate(r.rows, window)
            /\ \A row1 \in r.rows, row2 \in r.rows :
                 row1.categoryId = row2.categoryId => row1 = row2

\* The sum of the percentages of a set of rows, as an exact fraction.
RECURSIVE SumPercentages(_)
SumPercentages(rows) ==
  IF rows = {} THEN Num(0)
  ELSE LET row == CHOOSE x \in rows : TRUE
           rest == SumPercentages(rows \ {row})
       IN  Fraction(row.percentage.num * rest.den + rest.num * row.percentage.den,
                    row.percentage.den * rest.den)

\* C14: each row's percentage is its amount over the expense-type total of
\* the period's window, times 100; the percentages add up to 100 when that
\* total is positive and are all 0 when it is 0.
PercentagesAreSharesOfWindowTotal ==
  \A r \in breakdown :
    r.period \in PeriodTokens =>
      \E w \in PeriodWindows(r.period, r.now) :
        LET total == SumAmounts(InWindow(r.userId, "expense", w[1], w[2]))
        IN  /\ \A row \in r.rows :
                 /\ row.percentage.kind = "finite"
                 /\ row.percentage =
                      (IF total # 0 THEN JsTimes(JsDiv(row.amount, total), 100) ELSE Num(0))
            /\ total > 0 => SumPercentages(r.rows) = Num(100)
            /\ total = 0 => \A row \in r.rows : row.percentage = Num(0)

\* The expenses a breakdown selected that have no category: a null
\* categoryId, or one no row of categories carries.
Unmatched(r) ==
  {e \in breakdownExpenses(r.userId, r.startDate) :
     e.categoryId = NULL \/ ~ \E c \in categories : c.id = e.categoryId}

\* C15: every breakdown is answered, and each expense it selected whose
\* categoryId is null or matches no category is reported in a row labelled
\* "Uncategorized" with the color #6B7280, whose amount and count are those
\* of the expenses of that categoryId.
UncategorizedRowReported ==
  \A r \in breakdown :
    \A e \in Unmatched(r) :
      \E row \in r.rows :
        /\ row.categoryId = e.categoryId
        /\ row.category = "Uncategorized"
        /\ row.color = "#6B7280"
        /\ row.amount = SumAmounts({o \in Unmatched(r) : o.categoryId = e.categoryId})
        /\ row.transactionCount =
             Cardinality({o \in Unmatched(r) : o.categoryId = e.categoryId})

UncategorizedBesideCategory ==
  \E r \in breakdown :
    /\ \E e \in Unmatched(r) : e.categoryId = NULL
    /\ \E row \in r.rows : row.category = "Uncategorized" /\ row.amount > 0
    /\ \E row \in r.rows : row.category = "Food & Dining"

\* C16: a DELETE /api/categories/:id of a category that transactions
\* reference succeeds and removes the category; every transaction is still
\* there with its amount, type and date, and those that referenced the
\* category match no category any more.
DeleteReferencedCategorySucceeds ==
  [][\A id \in CategoryIds :
       (/\ categoryReply' # categoryReply
        /\ categoryReply'.id = id
        /\ \E e \in expenses : e.categoryId = id)
       => /\ categoryReply'.status = 200
          /\ ~ \E c \in categories' : c.id = id
          /\ \A e \in expenses :
               \E kept \in expenses' :
                 /\ kept.id = e.id
                 /\ kept.amount = e.amount /\ kept.type = e.type /\ kept.date = e.date]_vars

\* ---------------------------------------------------- spending trends
\* The label YYYY-MM of the calendar month of index i (year * 12 + month).
MonthLabel(i) == <<i \div 12, (i % 12) + 1>>

\* The N trailing calendar months of a trends request: the clock's month
\* and the N - 1 before it.
TrendWindow(t) == (MonthIndex(t.now) - t.months + 1)..MonthIndex(t.now)

\* C17: every calendar month of the requested window in which the user has
\* no transaction still has an entry in the answered trends, with
\* totalExpenses, totalIncome and netSavings 0.
EmptyMonthsAppearInTrends ==
  \A t \in trends :
    t.status = 200 =>
      \A i \in TrendWindow(t) :
        (~ \E e \in expenses : e.userId = t.userId /\ MonthIndex(e.date) = i)
        => \E k \in 1..Len(t.rows) :
             /\ t.rows[k].month = MonthLabel(i)
             /\ t.rows[k].totalExpenses = 0
             /\ t.rows[k].totalIncome = 0
             /\ t.rows[k].netSavings = 0

\* C18: the answered trends of a request of N months (6 when the query
\* string gives none) have exactly N entries, the k-th one labelled with the
\* k-th calendar month of the window: ascending, no label twice, none after
\* the clock's month.
TrendsHaveOneEntryPerMonth ==
  \A t \in trends :
    t.status = 200 =>
      /\ Len(t.rows) = t.months
      /\ \A k \in 1..Len(t.rows) :
           t.rows[k].month = MonthLabel(MonthIndex(t.now) - t.months + k)

\* -------------------------------------------------- stats and writes
\* The sum one query of getDashboardStats gives over the table `table`:
\* the user's rows of one type dated from `from` on, up to `to` included
\* when the query has an upper end.
TotalOver(table, userId, type, from, to) ==
  SumAmounts({e \in table :
                /\ e.userId = userId
                /\ e.type = type
                /\ DateValue(e.date) >= DateValue(from)
                /\ (to # {} => \A end \in to : DateValue(e.date) <= DateValue(end))})

\* What a getDashboardStats call of the user at the clock returns when all
\* four queries read the table `table`.
StatsOver(table, userId, clock) ==
  LET firstDayThisMonth == MakeDate(clock.y, clock.m, 1, 0)
      firstDayLastMonth == MakeDate(clock.y, clock.m - 1, 1, 0)
      lastDayLastMonth == MakeDate(clock.y, clock.m, 0, 0)
  IN  dashboardStats(userId, clock,
        TotalOver(table, userId, "expense", firstDayThisMonth, {}),
        TotalOver(table, userId, "income", firstDayThisMonth, {}),
        TotalOver(table, userId, "expense", firstDayLastMonth, {lastDayLastMonth}),
        TotalOver(table, userId, "income", firstDayLastMonth, {lastDayLastMonth}))

\* C19: the four sums of a completed stats call, and what is derived from
\* them, are those of one table of transactions that existed at some
\* instant during the call, whatever writes landed between its queries.
StatsFromOneSnapshot ==
  statsCall.pc = "idle" =>
    \A s \in stats : \E table \in snapshots : s = StatsOver(table, s.userId, s.now)

\* C20: every stored money field (a transaction's amount, a budget's
\* amount, a goal's targetAmount and currentAmount) is non-negative and
\* every stored alertThreshold lies in [0, 1] (0 to 100 hundredths): a
\* create or update that would store anything else is rejected.
StoredMoneyIsNonNegative ==
  /\ \A e \in expenses : e.amount >= 0
  /\ \A b \in budgets : b.amount >= 0 /\ b.alertThreshold >= 0 /\ b.alertThreshold <= 100
  /\ \A g \in goals : g.targetAmount >= 0 /\ g.currentAmount >= 0

\* ------------------------------------------------ accounts and sessions
Owned(table, id) == {r \in table : r.userId = id}

\* C21: DELETE /api/user/data always succeeds, and then no category,
\* transaction, budget, goal or session of the user remains while the rows
\* of the other users are as they were.
DeleteUserCascades ==
  [][\A c \in Clients :
       (Handling(c, "DELETE /api/user/data") /\ authCall'[c].pc = "idle") =>
         LET id == authCall[c].userId
         IN  /\ authReply'[c].status = 200
             /\ ~UserExists(id)'
             /\ Owned(categories', id) = {} /\ categories' = Cascaded(categories, id)
             /\ Owned(expenses', id) = {} /\ expenses' = Cascaded(expenses, id)
             /\ Owned(budgets', id) = {} /\ budgets' = Cascaded(budgets, id)
             /\ Owned(goals', id) = {} /\ goals' = Cascaded(goals, id)
             /\ Owned(sessions', id) = {} /\ sessions' = Cascaded(sessions, id)]_vars

\* The session ids a request carries.
Carried(call) == {call.header, call.cookie} \ {NULL}
Stored == <<tables, goals, users, sessions>>

\* C22: requireAuth lets a request through to its handler only when it
\* carries the id of a stored session that has not expired, and only while
\* the user of that session exists; every other request is answered 401
\* with storage left as it was.
RequireAuthAdmitsLiveSessionsOnly ==
  [][\A c \in Clients :
       /\ (authCall[c].pc = "getSession" /\ authCall'[c].pc # "getSession") =>
            \/ /\ authCall'[c].pc = "getUser"
               /\ \E s \in sessions :
                    /\ s.id \in Carried(authCall[c])
                    /\ DateValue(s.expiresAt) >= DateValue(now)
                    /\ s.userId = authCall'[c].userId
            \/ /\ authCall'[c].pc = "idle"
               /\ authReply'[c].status = 401
               /\ Stored' = Stored
       /\ (authCall[c].pc = "getUser" /\ authCall'[c].pc # "getUser") =>
            \/ /\ authCall'[c].pc = "handler"
               /\ UserExists(authCall[c].userId)
               /\ authCall'[c].userId = authCall[c].userId
            \/ /\ authCall'[c].pc = "idle"
               /\ authReply'[c].status = 401
               /\ Stored' = Stored
       /\ (authCall'[c].pc = "handler" /\ authCall[c].pc # "handler") =>
            authCall[c].pc = "getUser"]_vars

\* A request of the script has been let through to its handler, and the
\* browser's request, whose session was stored when getSession read it, has
\* been refused because the user was deleted before getUser.
RequireAuthHasRefusedAndAdmitted ==
  /\ authReply["browser"].status = 401
  /\ authReply["browser"].error = "User not found"
  /\ authReply["script"].status = 200

\* C23: a logout that is answered { success: true } deletes the session the
\* request was authenticated with, so that the id is refused from then on,
\* and deletes no other session.
LogoutDeletesPresentedSession ==
  [][\A c \in Clients :
       (Handling(c, "POST /api/auth/logout") /\ authCall'[c].pc = "idle"
          /\ authReply'[c].status = 200) =>
         sessions' = deleteSession(presentedSessionId(authCall[c]))]_vars

\* ---------------------------------------------------------- registration
\* C24: no two users ever have the same email.  A register request for an
\* email that a user has, whether it had it when the request arrived or got
\* it from a request served at the same time, is answered 400 and creates
\* neither a user nor a session; a request answered 200 has created its own
\* user, with its email, and a session for that user.
RegistrationKeepsEmailsUnique ==
  [][/\ \A u, v \in users' : u.email = v.email => u = v
     /\ \A r \in RegisterCalls :
          /\ (registerCalls'[r] # registerCalls[r]
                /\ registerCalls[r].pc \in {"getUserByEmail", "createUser"}
                /\ getUserByEmail(registerCalls[r].email) # {}) =>
               /\ registerCalls'[r].status = 400
               /\ users' = users /\ sessions' = sessions
          /\ registerCalls'[r].status = 400 =>
               registerCalls'[r].userId = NULL /\ registerCalls'[r].sessionId = NULL
          /\ registerCalls'[r].status = 200 =>
               /\ \E u \in users' : u.id = registerCalls'[r].userId
                                     /\ u.email = registerCalls'[r].email
               /\ \E s \in sessions' : s.id = registerCalls'[r].sessionId
                                        /\ s.userId = registerCalls'[r].userId
               /\ \A q \in RegisterCalls \ {r} :
                    registerCalls'[q].userId # registerCalls'[r].userId]_vars

\* Two requests for one email passed the getUserByEmail check together; one
\* has its user and its session, the other failed at the insert.
RegisterRaceLost ==
  \E r, q \in RegisterCalls :
    /\ registerCalls[r].email = registerCalls[q].email
    /\ registerCalls[r].status = 200
    /\ registerCalls[q].status = 400
    /\ registerCalls[q].error = "Registration failed"

\* ------------------------------------------------------- user isolation
\* The rows of a table that belong to a user other than the given one.
OthersRows(table, id) == {r \in table : r.userId \notin {id, NULL}}

\* C25: whatever id a request carries, its handler leaves every
\* transaction, category, budget and goal of the users other than the one
\* the request was authenticated as untouched.
HandlersKeepToTheirUser ==
  [][\A c \in Clients :
       (authCall[c].pc = "handler" /\ authCall'[c].pc = "idle") =>
         LET id == authCall[c].userId
         IN  /\ OthersRows(expenses', id) = OthersRows(expenses, id)
             /\ OthersRows(categories', id) = OthersRows(categories, id)
             /\ OthersRows(budgets', id) = OthersRows(budgets, id)
             /\ OthersRows(goals', id) = OthersRows(goals, id)]_vars

\* -------------------------------------------------- Goals and Budget pages
\* C26: every update and delete of a budget or a goal that the pages send
\* is served by a route of registerRoutes.
ClientMutationsAreRouted ==
  \A reply \in routeReply : reply.routed /\ <<reply.method, reply.path>> \in Routes

\* C27: a stored goal is completed exactly when its current amount has
\* reached its target.
CompletedIffTargetReached ==
  \A g \in goals : g.isCompleted <=> (g.currentAmount >= g.targetAmount)

\* The sum of the add-progress amounts updateGoal has stored for a goal.
RECURSIVE ProgressStored(_, _)
ProgressStored(log, id) ==
  IF log = <<>> THEN 0
  ELSE (IF Head(log).id = id THEN Head(log).amount ELSE 0) + ProgressStored(Tail(log), id)

GoalsNamed(name) == {g \in goals : g.userId = wizard.userId /\ g.name = name}
CategoriesNamed(name) == {c \in categories : c.userId = wizard.userId /\ c.name = name}
GoalsExist(run) == \A name \in run.goals : GoalsNamed(name) # {}
CategoriesExist(run) == \A name \in run.categories : CategoriesNamed(name) # {}
OnboardingCompleted == \E u \in users : u.id = wizard.userId /\ u.onboardingCompleted
Runs == {wizard.runs[a] : a \in 1..Len(wizard.runs)}

RetryCreatesNothingTwice ==
  \A a \in 1..Len(wizard.runs) :
    (/\ wizard.runs[a].pc = "finished"
     /\ \A b \in 1..Len(wizard.runs) \ {a} : b < a /\ wizard.runs[b].pc = "failed") =>
      /\ \A name \in wizard.runs[a].goals : Cardinality(GoalsNamed(name)) = 1
      /\ \A name \in wizard.runs[a].categories : Cardinality(CategoriesNamed(name)) = 1

=============================================================================
